---- MODULE Spec2Model ----
(***************************************************************************)
(* Model of gitflow-rs: branch-relationship detection (src/git/branch.rs), *)
(* the merge primitive (src/git/merge.rs), the persisted configuration     *)
(* (src/configuration/settings.rs) and the cascade command                 *)
(* (src/commands/cascade.rs).                                              *)
(***************************************************************************)
EXTENDS Integers, Sequences, FiniteSets, TLC

\* ------------------------------------------------------------------ bounds

\* Number of commits in the repository before the command runs.
MaxCommits == 3
\* Largest number of manual relationships (edges) in the persisted config.
MaxRel == 3
\* Largest number of manual relationships the config command builds up.
MaxConfigRel == 2
\* Number of nested print_branch_tree calls the thread's stack has room for.
MaxDepth == 5

\* ------------------------------------------------------------- vocabulary

\* Branch names that can occur (as local branches or in the manual map).
\* ListOrder is the order in which repo.branches(Local) enumerates them
\* (libgit2 iterates references sorted by name).
ListOrder == <<"feature-a", "feature-b", "main">>
Names == {ListOrder[i] : i \in 1..Len(ListOrder)}

\* A local branch whose name is not valid UTF-8 (Branch::name() is Ok(None)),
\* and the enumeration order of all local branches.
Invalid == "feature-\\xFF"
BranchOrder == <<"feature-a", "feature-b", Invalid, "main">>

BranchRelationStrategy == {"CommitHistory", "CreationTime", "DefaultRoot", "Manual"}
DefaultStrategy == "CommitHistory"

\* Option<BranchDetectionStrategy> of the command line, after .into().
None == "None"
StrategyOpt == {None} \cup BranchRelationStrategy

Day == 60 * 60 * 24
\* The creation-time window of get_branch_tree_by_creation_time.
Window == 60 * 60 * 24 * 30

\* An empty HashMap<String, Vec<String>>.
EmptyTree == [b \in {} |-> <<>>]

VARIABLES
  \* --- the repository (git2::Repository)
  commits,      \* commit id -> [parents : set of ids, time : seconds]
  refs,         \* local branch name -> tip commit id   (refs/heads/*)
  HEAD,         \* the checked-out branch
  dirty,        \* TRUE iff get_repo_status(repo, false) is non-empty
  \* --- the configuration file on disk
  disk,         \* [default_base_branch, branch_relationships, branch_detection_strategy]
  \* --- arguments of handle_cascade
  yes,
  strategy_opt,
  \* --- locals of handle_cascade / merge_recursive
  pc,           \* position in handle_cascade
  config,       \* the Config loaded at line 43
  strategy,
  branch_tree,
  alt,          \* index into `alternatives` of the fallback loop
  processed,    \* keys of the `processed` HashMap
  root_branches,\* roots still to be processed by the loop at line 113
  stack,        \* call stack of merge_recursive: <<[branch, i]>>, top last
  result,       \* "running", "Ok" or the name of the GitFlowError returned
  \* --- observation of the run (history)
  log,          \* the calls made so far, in order: get_branch_tree ("detect"),
                \* prompt_confirmation ("prompt"), the entries into the body of
                \* merge_recursive ("visit") and merge_branch ("merge")
  \* --- other gitflow processes working on the same configuration file
  sessions      \* process -> [pc, config, add_relationship, result]

vars == <<commits, refs, HEAD, dirty, disk, yes, strategy_opt, sessions, pc, config,
          strategy, branch_tree, alt, processed, root_branches, stack, result, log>>

repoVars == <<commits, refs, HEAD, dirty>>

\* --------------------------------------------------------------- sequences

Range(s) == {s[i] : i \in 1..Len(s)}

RECURSIVE FilterSeq(_, _)
\* The subsequence of s whose elements are in the set keep (order kept).
FilterSeq(s, keep) ==
  IF s = <<>> THEN <<>>
  ELSE IF Head(s) \in keep THEN <<Head(s)>> \o FilterSeq(Tail(s), keep)
       ELSE FilterSeq(Tail(s), keep)

\* All orderings of a finite set (the iteration orders a HashMap can show).
Perms(S) ==
  {s \in [1..Cardinality(S) -> S] : \A i, j \in 1..Cardinality(S) : i # j => s[i] # s[j]}

\* ---------------------------------------------------------- commit graph

RECURSIVE RevWalk(_, _)
\* The commits a revwalk pushed with commit c yields: c and all its ancestors.
RevWalk(cs, c) ==
  {c} \cup UNION {RevWalk(cs, p) : p \in cs[c].parents}

\* is_descendant_of(repo, commit, potential_ancestor)
is_descendant_of(cs, commit, potential_ancestor) ==
  IF commit = potential_ancestor THEN FALSE
  ELSE potential_ancestor \in RevWalk(cs, commit)

\* repo.branches(Some(BranchType::Local)): the local branches as enumerated.
local_branches(rf) == FilterSeq(BranchOrder, DOMAIN rf)

\* branch.name()?.unwrap_or("").to_string()
unwrap_or_empty(b) == IF b = Invalid THEN "" ELSE b

\* repo.revparse_single(name) succeeds: the name is that of a local branch (the
\* empty revision string is rejected as an invalid spec).
revparse_ok(rf, name) == name # "" /\ name # Invalid /\ name \in DOMAIN rf

\* The first pass of get_branch_tree_by_history (lines 162-173) returns Err for
\* a name that is not UTF-8; the other strategies have no such return.
get_branch_tree_err(rf, strat) ==
  strat = "CommitHistory" /\ \E b \in DOMAIN rf : b = Invalid

\* The Vec all_branches of the names, when the first pass succeeded.
all_branches(rf) == FilterSeq(ListOrder, DOMAIN rf)

\* is_direct_parent_child(all_branches, parent, child, repo)
is_direct_parent_child(cs, rf, parent, child) ==
  \A other \in DOMAIN rf :
    (other # parent /\ other # child) =>
      ~(  is_descendant_of(cs, rf[other], rf[parent])
       /\ is_descendant_of(cs, rf[child], rf[other]))

\* The condition of lines 184-185 under which the edge branch_name -> other_branch
\* is pushed into the tree.
history_edge(cs, rf, branch_name, other_branch) ==
  /\ branch_name # other_branch
  /\ is_descendant_of(cs, rf[other_branch], rf[branch_name])
  /\ ~is_direct_parent_child(cs, rf, branch_name, other_branch)

\* The filter of lines 184-185 on a relation R over the branches `names`
\* (<<a, b>> in R: b is a descendant of a): the pairs of R it lets into the
\* tree are those for which is_direct_parent_child, run on R, is false.
directness_filter(R, names) ==
  {e \in R :
     ~(\A other \in names :
         (other # e[1] /\ other # e[2]) =>
           ~(<<e[1], other>> \in R /\ <<other, e[2]>> \in R))}
\* The HashMap built by tree.entry(p).or_insert_with(Vec::new).push(c) when the
\* pairs <<p, c>> of E are visited with c running through `order`: a key exists
\* only for a parent with at least one child.
TreeOf(order, E) ==
  LET kids(p) == SelectSeq(order, LAMBDA c : <<p, c>> \in E)
  IN  [p \in {q \in Range(order) : kids(q) # <<>>} |-> kids(p)]

\* get_branch_tree_by_history(repo)
get_branch_tree_by_history(cs, rf) ==
  TreeOf(all_branches(rf),
         {e \in (DOMAIN rf) \X (DOMAIN rf) : history_edge(cs, rf, e[1], e[2])})

\* are_branches_related(repo, branch1, branch2); repo.merge_base succeeds iff
\* the two commits have a common ancestor.
are_branches_related(cs, rf, branch1, branch2) ==
  \/ is_descendant_of(cs, rf[branch1], rf[branch2])
  \/ is_descendant_of(cs, rf[branch2], rf[branch1])
  \/ RevWalk(cs, rf[branch1]) \cap RevWalk(cs, rf[branch2]) # {}

RECURSIVE sort_by_time(_)
\* branch_times.sort_by(|a, b| a.1.cmp(&b.1)): a stable sort, here by insertion
\* of each element behind the elements that are not later than it.
sort_by_time(bt) ==
  IF bt = <<>> THEN <<>>
  ELSE LET init == sort_by_time(SubSeq(bt, 1, Len(bt) - 1))
           x    == bt[Len(bt)]
           k    == Cardinality({i \in 1..Len(init) : init[i].time <= x.time})
       IN  SubSeq(init, 1, k) \o <<x>> \o SubSeq(init, k + 1, Len(init))

\* (mutation) the sort of line 221 is missing: the branches stay in the order
\* of the listing.
branch_times_unsorted(cs, rf) ==
  LET found == local_branches(rf)
      names == SelectSeq([i \in 1..Len(found) |-> unwrap_or_empty(found[i])],
                         LAMBDA n : revparse_ok(rf, n))
  IN  [i \in 1..Len(names) |-> [name |-> names[i], time |-> cs[rf[names[i]]].time]]

\* Lines 210-221: the branches with their tip commit's time, oldest first.
branch_times(cs, rf) ==
  LET found == local_branches(rf)
      names == SelectSeq([i \in 1..Len(found) |-> unwrap_or_empty(found[i])],
                         LAMBDA n : revparse_ok(rf, n))
  IN  sort_by_time([i \in 1..Len(names) |->
                      [name |-> names[i], time |-> cs[rf[names[i]]].time]])

\* (mutation) a gap of exactly 30 days is accepted.
time_parent_ok_inclusive(cs, rf, bt, i, j) ==
  /\ bt[i].time - bt[j].time <= Window
  /\ are_branches_related(cs, rf, bt[j].name, bt[i].name)

\* The test of lines 232-233 for the candidate parent bt[j] of the child bt[i].
time_parent_ok(cs, rf, bt, i, j) ==
  /\ bt[i].time - bt[j].time < Window
  /\ are_branches_related(cs, rf, bt[j].name, bt[i].name)

RECURSIVE scan_back(_, _, _, _, _)
\* The loop `for j in (0..i).rev()` of line 229: the index of the parent chosen
\* for bt[i], or 0 when the loop ends without a break.
scan_back(cs, rf, bt, i, j) ==
  IF j = 0 THEN 0
  ELSE IF time_parent_ok(cs, rf, bt, i, j) THEN j
       ELSE scan_back(cs, rf, bt, i, j - 1)

\* get_branch_tree_by_creation_time(repo)
get_branch_tree_by_creation_time(cs, rf) ==
  LET bt == branch_times(cs, rf)
      E  == {<<bt[scan_back(cs, rf, bt, i, i - 1)].name, bt[i].name>> :
               i \in {k \in 2..Len(bt) : scan_back(cs, rf, bt, k, k - 1) # 0}}
  IN  TreeOf([i \in 1..Len(bt) |-> bt[i].name], E)

\* (mutation) the check of lines 264-266 that the default branch exists is
\* missing.
default_root_unverified(rf, default_branch) ==
  [p \in {default_branch} |->
     SelectSeq([i \in 1..Len(local_branches(rf)) |->
                  unwrap_or_empty(local_branches(rf)[i])],
               LAMBDA n : n # default_branch)]

\* get_branch_tree_with_default_root(repo, default_branch)
get_branch_tree_with_default_root(rf, default_branch) ==
  IF default_branch \notin DOMAIN rf THEN EmptyTree
  ELSE LET found == local_branches(rf)
           other_branches ==
             SelectSeq([i \in 1..Len(found) |-> unwrap_or_empty(found[i])],
                       LAMBDA n : n # default_branch)
       IN  IF other_branches # <<>>
           THEN [p \in {default_branch} |-> other_branches]
           ELSE EmptyTree

\* (mutation) Manual detection drops the relationships that name a branch that
\* does not exist.
get_branch_tree_validated(cs, rf, strat, conf) ==
  IF strat = "Manual"
  THEN LET rel  == conf.branch_relationships
           kept == [p \in DOMAIN rel |-> SelectSeq(rel[p], LAMBDA c : c \in DOMAIN rf)]
       IN  [p \in {q \in (DOMAIN rel) \cap (DOMAIN rf) : kept[q] # <<>>} |-> kept[p]]
  ELSE IF strat = "CommitHistory" THEN get_branch_tree_by_history(cs, rf)
  ELSE IF strat = "CreationTime" THEN get_branch_tree_by_creation_time(cs, rf)
  ELSE get_branch_tree_with_default_root(rf, conf.default_base_branch)
\* get_branch_tree(repo, strategy, config)
get_branch_tree(cs, rf, strat, conf) ==
  CASE strat = "CommitHistory" -> get_branch_tree_by_history(cs, rf)
    [] strat = "CreationTime"  -> get_branch_tree_by_creation_time(cs, rf)
    [] strat = "DefaultRoot"   ->
         get_branch_tree_with_default_root(rf, conf.default_base_branch)
    [] strat = "Manual"        -> conf.branch_relationships

\* branch_tree.is_empty()
is_empty(tree) == DOMAIN tree = {}

\* The edges parent -> child of a tree.
Edges(tree) == UNION {{<<p, c>> : c \in Range(tree[p])} : p \in DOMAIN tree}

\* (mutation) the filter on all_children is missing: every key is a root.
find_root_branches_all_keys(tree) == DOMAIN tree
\* find_root_branches(branch_tree), as the set of the names returned; the Vec
\* is in the HashMap's iteration order, which is any order.
find_root_branches(tree) ==
  LET all_children == UNION {Range(tree[p]) : p \in DOMAIN tree}
  IN  {branch \in DOMAIN tree : branch \notin all_children}

\* ------------------------------------------------------------ merge_branch

\* HEAD when it is not a branch (detached HEAD state).
Detached == "(detached)"

\* repo.merge_analysis: the source tip `theirs` against the checked-out `ours`.
merge_analysis(cs, ours, theirs) ==
  IF theirs \in RevWalk(cs, ours) THEN "up_to_date"
  ELSE IF ours \in RevWalk(cs, theirs) THEN "fast_forward"
  ELSE "normal"

\* The merge commit of lines 109-118, with parents [head_commit, merged_commit].
with_merge_commit(cs, ours, theirs) ==
  LET n   == Cardinality(DOMAIN cs) + 1
      now == CHOOSE t \in {cs[c].time : c \in DOMAIN cs} :
               \A c \in DOMAIN cs : cs[c].time <= t
  IN  [c \in (DOMAIN cs) \cup {n} |->
         IF c = n THEN [parents |-> {ours, theirs}, time |-> now] ELSE cs[c]]

\* The result of a merge_branch call: the Result returned ("Ok" or the variant
\* of GitFlowError) and the repository the call leaves.
Outcome(res, cs, rf, head, drt) ==
  [res |-> res, cs |-> cs, rf |-> rf, head |-> head, dirty |-> drt]

\* merge_branch(repo, from, to): the outcomes the call can have. A normal merge
\* has outcomes decided by the content of the branches and by the backend: a
\* non-conflict error of repo.signature / repo.merge (returned at once, HEAD
\* left on `to`), a conflict (state cleaned up, original branch checked out
\* again) and a merge commit; after an error or a conflict the backend may
\* leave changes in the working tree.
merge_branch(cs, rf, head, drt, from, to) ==
  IF drt THEN {Outcome("Aborted", cs, rf, head, drt)}
  ELSE IF head \notin DOMAIN rf THEN {Outcome("Git", cs, rf, head, drt)}
  ELSE IF to \notin DOMAIN rf THEN {Outcome("Git", cs, rf, head, drt)}
  ELSE IF from \notin DOMAIN rf THEN {Outcome("Git", cs, rf, to, drt)}
  ELSE LET analysis == merge_analysis(cs, rf[to], rf[from])
       IN  CASE analysis = "up_to_date" -> {Outcome("Ok", cs, rf, head, drt)}
             [] analysis = "fast_forward" ->
                  {Outcome("Ok", cs, [rf EXCEPT ![to] = rf[from]], head, drt)}
             [] analysis = "normal" ->
                  {Outcome("Git", cs, rf, to, d) : d \in BOOLEAN}
                  \cup {Outcome("Aborted", cs, rf, head, d) : d \in BOOLEAN}
                  \cup {Outcome("Ok", with_merge_commit(cs, rf[to], rf[from]),
                                [rf EXCEPT ![to] = Cardinality(DOMAIN cs) + 1],
                                head, drt)}

\* ------------------------------------------------------------------ Config

\* Config::set_default_base_branch (the Config that is saved)
set_default_base_branch(conf, branch) == [conf EXCEPT !.default_base_branch = branch]

\* (mutation) the setter writes the default strategy, not its argument.
set_branch_detection_strategy_to_default(conf, strat) ==
  [conf EXCEPT !.branch_detection_strategy = DefaultStrategy]

\* Config::set_branch_detection_strategy (the Config that is saved)
set_branch_detection_strategy(conf, strat) ==
  [conf EXCEPT !.branch_detection_strategy = strat]

\* Config::add_branch_relationship: entry(parent).or_insert_with(Vec::new)
\* .push(child), then save.
add_branch_relationship(conf, parent, child) ==
  LET rel  == conf.branch_relationships
      kids == IF parent \in DOMAIN rel THEN rel[parent] ELSE <<>>
  IN  [conf EXCEPT !.branch_relationships =
         [p \in (DOMAIN rel) \cup {parent} |->
            IF p = parent THEN Append(kids, child) ELSE rel[p]]]

\* (mutation) the key stays in the map when its list becomes empty.
remove_branch_relationship_keeping_key(conf, parent, child) ==
  LET rel == conf.branch_relationships
  IN  IF parent \notin DOMAIN rel THEN conf
      ELSE [conf EXCEPT !.branch_relationships =
              [rel EXCEPT ![parent] = SelectSeq(rel[parent], LAMBDA c : c # child)]]

\* Config::remove_branch_relationship: retain(|c| c != child), the key is removed
\* when its list becomes empty, then save.
remove_branch_relationship(conf, parent, child) ==
  LET rel == conf.branch_relationships
  IN  IF parent \notin DOMAIN rel THEN conf
      ELSE LET kept == SelectSeq(rel[parent], LAMBDA c : c # child)
           IN  [conf EXCEPT !.branch_relationships =
                  IF kept = <<>> THEN [p \in (DOMAIN rel) \ {parent} |-> rel[p]]
                  ELSE [rel EXCEPT ![parent] = kept]]

\* ---------------------------------------------------------- handle_cascade

\* The array `alternatives` of lines 60-64.
alternatives == <<"CreationTime", "DefaultRoot", "Manual">>

\* prompt_confirmation: "y" (any case) is yes, any other line is no, and a
\* failing read of stdin is an io::Error, which `?` returns from the command.
Answers == {"y", "n", "err"}

Detect(s, tree)     == [kind |-> "detect", strategy |-> s, tree |-> tree]
DetectErr(s)        == [kind |-> "detect_err", strategy |-> s]
Prompt(q, a, ans)   == [kind |-> "prompt", q |-> q, alt |-> a, answer |-> ans]
Visit(b)            == [kind |-> "visit", branch |-> b]
Merge(from, to, r)  == [kind |-> "merge", from |-> from, to |-> to, res |-> r]

\* (mutation) the fallback loop is entered although a strategy is pinned.
fallback_entered_when_pinned(tree, opt) == is_empty(tree)

\* The condition of line 56 under which the fallback loop is entered.
fallback_entered(tree, opt) == is_empty(tree) /\ opt = None

\* The condition of line 67 under which an alternative is skipped.
alt_skipped(alt_strategy, strat) == alt_strategy = strat

\* (mutation) the fallback loop has no break.
alt_found_without_break(tree) == FALSE

\* The condition of line 78 under which the fallback loop is left (break).
alt_found(tree) == ~is_empty(tree)

\* (mutation) no early return for an empty tree.
nothing_detected_ignored(tree) == FALSE

\* The condition of line 91 under which the command returns Ok early.
nothing_detected(tree) == is_empty(tree)

\* (mutation) the confirmation is skipped as if --yes were always given.
must_confirm_never(y) == FALSE

\* The condition of line 105 under which the "Proceed with merges?" prompt is
\* issued.
must_confirm(y) == ~y

\* (mutation) the Err of merge_branch is returned with `?`.
merge_error_returned_by_question_mark(res) == res # "Ok"

\* The match of lines 157-162: whether the Result of merge_branch is returned
\* from merge_recursive (it never is: Err is logged as a warning).
merge_error_returned(res) == FALSE

\* (mutation) the test of the processed map is missing.
already_processed_unchecked(done, branch) == FALSE

\* The test of line 146: merge_recursive returns at once for such a branch.
already_processed(done, branch) == branch \in done

\* Lines 43-54: load the configuration, pick the strategy, detect.
Start ==
  /\ pc = "start"
  /\ config' = disk
  /\ strategy' = IF strategy_opt # None THEN strategy_opt
                 ELSE disk.branch_detection_strategy
  /\ IF get_branch_tree_err(refs, strategy')
     THEN /\ result' = "Git" /\ pc' = "done"
          /\ log' = Append(log, DetectErr(strategy'))
          /\ UNCHANGED <<branch_tree, alt>>
     ELSE /\ branch_tree' = get_branch_tree(commits, refs, strategy', config')
          /\ log' = Append(log, Detect(strategy', branch_tree'))
          /\ result' = result
          /\ IF fallback_entered(branch_tree', strategy_opt)
             THEN pc' = "alternatives" /\ alt' = 1
             ELSE pc' = "planned" /\ alt' = alt
  /\ UNCHANGED <<repoVars, disk, yes, strategy_opt, sessions, processed, root_branches,
                 stack>>

\* Lines 66-69: an alternative equal to `strategy` is skipped.
AltSkip ==
  /\ pc = "alternatives"
  /\ alt <= Len(alternatives)
  /\ alt_skipped(alternatives[alt], strategy)
  /\ alt' = alt + 1
  /\ UNCHANGED <<repoVars, disk, yes, strategy_opt, sessions, pc, config, strategy,
                 branch_tree, processed, root_branches, stack, result, log>>

\* Lines 71-88: the user is asked about the alternative; on yes it is run.
AltTry ==
  /\ pc = "alternatives"
  /\ alt <= Len(alternatives)
  /\ ~alt_skipped(alternatives[alt], strategy)
  /\ \E answer \in Answers :
       LET asked == Append(log, Prompt("Try", alternatives[alt], answer))
           tree  == get_branch_tree(commits, refs, alternatives[alt], config)
       IN  CASE answer = "err" ->
                  /\ result' = "Io" /\ pc' = "done" /\ log' = asked
                  /\ UNCHANGED <<alt, strategy, branch_tree>>
             [] answer = "n" ->
                  /\ alt' = alt + 1 /\ log' = asked
                  /\ UNCHANGED <<pc, strategy, branch_tree, result>>
             [] answer = "y" /\ get_branch_tree_err(refs, alternatives[alt]) ->
                  /\ strategy' = alternatives[alt]
                  /\ result' = "Git" /\ pc' = "done"
                  /\ log' = Append(asked, DetectErr(alternatives[alt]))
                  /\ UNCHANGED <<alt, branch_tree>>
             [] answer = "y" /\ ~get_branch_tree_err(refs, alternatives[alt]) ->
                  /\ strategy' = alternatives[alt]
                  /\ branch_tree' = tree
                  /\ log' = Append(asked, Detect(alternatives[alt], tree))
                  /\ IF alt_found(tree)
                     THEN pc' = "found" /\ alt' = alt
                     ELSE pc' = pc /\ alt' = alt + 1
                  /\ result' = result
  /\ UNCHANGED <<repoVars, disk, yes, strategy_opt, sessions, config, processed,
                 root_branches, stack>>

\* The loop of line 66 ends without a break.
AltExhausted ==
  /\ pc = "alternatives"
  /\ alt > Len(alternatives)
  /\ pc' = "planned"
  /\ UNCHANGED <<repoVars, disk, yes, strategy_opt, sessions, config, strategy,
                 branch_tree, alt, processed, root_branches, stack, result, log>>

\* Lines 81-86: offer to persist the strategy that found a hierarchy
\* (Config::load, set_branch_detection_strategy, save), then break.
SetDefault ==
  /\ pc = "found"
  /\ \E answer \in Answers :
       /\ log' = Append(log, Prompt("SetDefault", strategy, answer))
       /\ CASE answer = "err" ->
                 result' = "Io" /\ pc' = "done" /\ disk' = disk
            [] answer = "n" ->
                 result' = result /\ pc' = "planned" /\ disk' = disk
            [] answer = "y" ->
                 /\ result' = result /\ pc' = "planned"
                 /\ disk' = set_branch_detection_strategy(disk, strategy)
  /\ UNCHANGED <<repoVars, yes, strategy_opt, sessions, config, strategy, branch_tree,
                 alt, processed, root_branches, stack>>

\* Lines 91-94: nothing detected, the command returns Ok.
NoHierarchy ==
  /\ pc = "planned"
  /\ nothing_detected(branch_tree)
  /\ result' = "Ok" /\ pc' = "done"
  /\ UNCHANGED <<repoVars, disk, yes, strategy_opt, sessions, config, strategy,
                 branch_tree, alt, processed, root_branches, stack, log>>

\* Lines 96-112: print the plan, confirm unless --yes, create `processed` and
\* compute the roots; the Vec of roots is in the HashMap's iteration order.
Confirm ==
  /\ pc = "planned"
  /\ ~nothing_detected(branch_tree)
  /\ \E answer \in (IF must_confirm(yes) THEN Answers ELSE {"skipped"}) :
       /\ log' = IF answer = "skipped" THEN log
                 ELSE Append(log, Prompt("Proceed", strategy, answer))
       /\ CASE answer = "err" ->
                 /\ result' = "Io" /\ pc' = "done"
                 /\ UNCHANGED <<processed, root_branches>>
            [] answer = "n" ->
                 /\ result' = "Aborted" /\ pc' = "done"
                 /\ UNCHANGED <<processed, root_branches>>
            [] answer \in {"y", "skipped"} ->
                 /\ result' = result /\ pc' = "cascade"
                 /\ processed' = {}
                 /\ root_branches' \in Perms(find_root_branches(branch_tree))
  /\ UNCHANGED <<repoVars, disk, yes, strategy_opt, sessions, config, strategy,
                 branch_tree, alt, stack>>

\* (mutation) the frame is pushed whether or not the branch was processed.
Enter_without_return(stk, done, branch) ==
  Append(stk, [branch |-> branch, i |-> 1])

\* merge_recursive(repo, branch, ...) is called: lines 146-151. The frame of
\* the call is pushed unless the branch was processed before.
Enter(stk, done, branch) ==
  IF already_processed(done, branch) THEN stk
  ELSE Append(stk, [branch |-> branch, i |-> 1])

Entered(done, branch) ==
  IF already_processed(done, branch) THEN <<>> ELSE <<Visit(branch)>>

\* (mutation) the children are iterated last to first.
children_reversed(tree, branch) ==
  IF branch \in DOMAIN tree
  THEN [i \in 1..Len(tree[branch]) |-> tree[branch][Len(tree[branch]) + 1 - i]]
  ELSE <<>>
\* The children the loop of line 155 iterates for a branch.
children(tree, branch) == IF branch \in DOMAIN tree THEN tree[branch] ELSE <<>>

\* Lines 113-115: the next root is handed to merge_recursive.
NextRoot ==
  /\ pc = "cascade"
  /\ stack = <<>>
  /\ root_branches # <<>>
  /\ LET branch == Head(root_branches)
     IN  /\ stack' = Enter(stack, processed, branch)
         /\ log' = log \o Entered(processed, branch)
         /\ processed' = processed \cup {branch}
  /\ root_branches' = Tail(root_branches)
  /\ UNCHANGED <<repoVars, disk, yes, strategy_opt, sessions, pc, config, strategy,
                 branch_tree, alt, result>>

\* Lines 155-164: one iteration of the loop over the children of the branch on
\* top of the stack: merge it into the child, then recurse into the child.
MergeChild ==
  /\ pc = "cascade"
  /\ stack # <<>>
  /\ LET top    == stack[Len(stack)]
         kids   == children(branch_tree, top.branch)
         rest   == [stack EXCEPT ![Len(stack)].i = top.i + 1]
     IN  /\ top.i <= Len(kids)
         /\ \E m \in merge_branch(commits, refs, HEAD, dirty, top.branch, kids[top.i]) :
              /\ commits' = m.cs /\ refs' = m.rf /\ HEAD' = m.head
              /\ dirty' = m.dirty
              /\ IF merge_error_returned(m.res)
                 THEN /\ result' = m.res /\ pc' = "done"
                      /\ log' = Append(log, Merge(top.branch, kids[top.i], m.res))
                      /\ UNCHANGED <<stack, processed>>
                 ELSE /\ result' = result /\ pc' = pc
                      /\ stack' = Enter(rest, processed, kids[top.i])
                      /\ log' = Append(log, Merge(top.branch, kids[top.i], m.res))
                                  \o Entered(processed, kids[top.i])
                      /\ processed' = processed \cup {kids[top.i]}
  /\ UNCHANGED <<disk, yes, strategy_opt, sessions, config, strategy, branch_tree,
                 alt, root_branches>>

\* Line 167: the loop over the children is over, merge_recursive returns Ok.
Return ==
  /\ pc = "cascade"
  /\ stack # <<>>
  /\ stack[Len(stack)].i > Len(children(branch_tree, stack[Len(stack)].branch))
  /\ stack' = SubSeq(stack, 1, Len(stack) - 1)
  /\ UNCHANGED <<repoVars, disk, yes, strategy_opt, sessions, pc, config, strategy,
                 branch_tree, alt, processed, root_branches, result, log>>

\* Lines 117-118: all roots are processed, the command returns Ok.
Completed ==
  /\ pc = "cascade"
  /\ stack = <<>>
  /\ root_branches = <<>>
  /\ result' = "Ok" /\ pc' = "done"
  /\ UNCHANGED <<repoVars, disk, yes, strategy_opt, sessions, config, strategy,
                 branch_tree, alt, processed, root_branches, stack, log>>

\* ------------------------------------------------------------ initial states

\* Commit times that occur: the same instant, a day later, exactly the window
\* later, 40 days later.
Times == {0, Day, Window, 40 * Day}

\* The commit graphs over the commits 1..n with times in ts: a commit's parents
\* are older commits (at most two, as git merge commits have), and a commit is
\* not earlier than the commits before it.
Graphs(n, ts) ==
  {g \in [1..n -> [parents : SUBSET (1..n), time : ts]] :
     \A c \in 1..n :
       /\ g[c].parents \subseteq 1..(c - 1)
       /\ Cardinality(g[c].parents) <= 2
       /\ c > 1 => g[c - 1].time <= g[c].time}

\* The graphs without merge commits that grow from the one root commit 1.
Linear(g) == \A c \in DOMAIN g : Cardinality(g[c].parents) = (IF c = 1 THEN 0 ELSE 1)

\* The assignments of tip commits to a set of local branches.
RefsOver(local, n) == [local -> 1..n]

\* The manual relationship maps that k calls of add_branch_relationship can
\* build from the empty map: no key has an empty child list.
ChildLists(k) == UNION {[1..m -> Names] : m \in 1..k}
TotalLen(tree) ==
  Cardinality({<<p, i>> \in (DOMAIN tree) \X (1..(MaxRel + 1)) : i <= Len(tree[p])})
ManualMaps(k) ==
  UNION {{t \in [P -> ChildLists(k)] : TotalLen(t) <= k} : P \in SUBSET Names}

DiskConfig(strat, base, rel) ==
  [branch_detection_strategy |-> strat, default_base_branch |-> base,
   branch_relationships |-> rel]

\* Before the command runs: nothing is loaded, detected or asked yet.
Idle ==
  /\ pc = "start"
  /\ config = DiskConfig(DefaultStrategy, "main", EmptyTree)
  /\ strategy = DefaultStrategy
  /\ branch_tree = EmptyTree
  /\ alt = 1
  /\ processed = {}
  /\ root_branches = <<>>
  /\ stack = <<>>
  /\ result = "running"
  /\ log = <<>>

\* No other gitflow process is running.
Alone == sessions = <<>>

\* The tips of the local branches: a later branch of ListOrder is on an older
\* commit (the other assignments are these with the names exchanged).
RefsOf(local, n) ==
  {rf \in RefsOver(local, n) :
     \A i, j \in 1..Len(all_branches(rf)) :
       i < j => rf[all_branches(rf)[i]] > rf[all_branches(rf)[j]]}

\* Every commit is in the history of some branch.
NoGarbage(cs, rf) == DOMAIN cs = UNION {RevWalk(cs, rf[b]) : b \in DOMAIN rf}

\* Repositories with one to three branches on distinct commits of any graph,
\* under every configured or pinned strategy; the manual map is empty or one
\* relationship.
InitDetecting ==
  /\ commits \in Graphs(MaxCommits, {0, 40 * Day})
  /\ \E local \in {Names, Names \ {"main"}, {"main"}} :
       /\ refs \in {rf \in RefsOf(local, MaxCommits) : NoGarbage(commits, rf)}
       /\ HEAD = all_branches(refs)[1]
  /\ dirty = FALSE
  /\ \E strat \in BranchRelationStrategy,
        rel \in {EmptyTree, [p \in {"main"} |-> <<"feature-a">>]} :
       disk = DiskConfig(strat, "main", rel)
  /\ yes \in BOOLEAN
  /\ strategy_opt \in StrategyOpt
  /\ strategy_opt # None => disk.branch_detection_strategy = DefaultStrategy

\* Every manual map of up to MaxRel relationships, as the configured strategy,
\* over repositories without merge commits in which each local branch has a
\* commit of its own; a named branch may be missing, the working tree may be
\* dirty and HEAD may be detached.
InitManual ==
  /\ disk \in {DiskConfig("Manual", "main", rel) : rel \in ManualMaps(MaxRel)}
  /\ \E local \in {Names, Names \ {"feature-b"}} :
       /\ commits \in {g \in Graphs(Cardinality(local), {0}) : Linear(g)}
       /\ refs \in RefsOf(local, Cardinality(local))
       /\ \/ HEAD = all_branches(refs)[1] /\ dirty \in BOOLEAN
          \/ HEAD = Detached /\ dirty = FALSE
  /\ yes \in BOOLEAN
  /\ strategy_opt = None

Init == Idle /\ Alone /\ (InitDetecting \/ InitManual)

Next ==
  \/ Start
  \/ AltSkip
  \/ AltTry
  \/ AltExhausted
  \/ SetDefault
  \/ NoHierarchy
  \/ Confirm
  \/ NextRoot
  \/ MergeChild
  \/ Return
  \/ Completed

Spec == Init /\ [][Next]_vars

\* The traversal makes progress whenever it can: the process is single-threaded
\* and every merge_branch call returns.
Traverse == NextRoot \/ MergeChild \/ Return \/ Completed

\* Detection alone: the command with a pinned strategy, up to the return of
\* get_branch_tree, over repositories with any commit times, with or without a
\* branch named as the default base and with or without a branch whose name is
\* not UTF-8.
TipsOf(local, n) ==
  {rf \in [local -> 1..n] :
     \A i, j \in 1..Len(local_branches(rf)) :
       i < j => rf[local_branches(rf)[i]] > rf[local_branches(rf)[j]]}
InitRepository ==
  /\ Idle /\ Alone
  /\ commits \in Graphs(MaxCommits, Times)
  /\ \E local \in {Names, Names \ {"main"}, {"main"}, {"feature-a", "main"},
                    {"feature-a", Invalid, "main"}, {Invalid, "main"}} :
       /\ refs \in TipsOf(local, MaxCommits)
       /\ HEAD = local_branches(refs)[Len(local_branches(refs))]
  /\ dirty = FALSE
  /\ \E rel \in {EmptyTree, [p \in {"main"} |-> <<"feature-a">>]} :
       disk = DiskConfig(DefaultStrategy, "main", rel)
  /\ yes = FALSE
  /\ strategy_opt \in BranchRelationStrategy

DetectSpec == InitRepository /\ [][Start]_vars

\* The command over every manual map, with the traversal scheduled fairly.
InitTrees == Idle /\ Alone /\ InitManual
FairSpec == InitTrees /\ [][Next]_vars /\ WF_vars(Traverse)

\* The cascade over hierarchies of four branches, in which a branch with two
\* parents can have a child of its own: every manual map of up to MaxRel
\* relationships with child lists of at most two names, each branch with a
\* commit of its own, merges not asked about.
WideOrder == <<"feature-a", "feature-b", "feature-c", "main">>
WideNames == Range(WideOrder)
ShortLists == UNION {[1..m -> WideNames] : m \in 1..2}
WideMaps(k) ==
  UNION {{t \in [P -> ShortLists] : TotalLen(t) <= k} : P \in (SUBSET WideNames) \ {{}}}
InitWide ==
  /\ Idle /\ Alone
  /\ commits \in {g \in Graphs(4, {0}) : Linear(g)}
  /\ disk \in {DiskConfig("Manual", "main", rel) : rel \in WideMaps(MaxRel)}
  /\ refs = [b \in WideNames |-> CHOOSE i \in 1..4 : WideOrder[5 - i] = b]
  /\ HEAD = "main" /\ dirty = FALSE
  /\ yes = TRUE
  /\ strategy_opt = None

CascadeNext ==
  \/ Start
  \/ Confirm
  \/ NextRoot
  \/ MergeChild
  \/ Return
  \/ Completed

WideSpec == InitWide /\ [][CascadeNext]_vars
\* -------------------------------------------------------------- handle_show

\* A line printed by print_branch_tree.
Line(b) == [kind |-> "line", branch |-> b]

\* show.rs lines 36-106 up to the call of print_branch_hierarchy: load the
\* configuration, detect, read the current branch; with an empty tree the local
\* branches are listed and the command returns Ok.
ShowStart ==
  /\ pc = "start"
  /\ config' = disk
  /\ strategy' = IF strategy_opt # None THEN strategy_opt
                 ELSE disk.branch_detection_strategy
  /\ IF get_branch_tree_err(refs, strategy')
     THEN /\ result' = "Git" /\ pc' = "done"
          /\ log' = Append(log, DetectErr(strategy'))
          /\ UNCHANGED <<branch_tree, root_branches>>
     ELSE /\ branch_tree' = get_branch_tree(commits, refs, strategy', config')
          /\ log' = Append(log, Detect(strategy', branch_tree'))
          /\ IF HEAD \notin DOMAIN refs
             THEN result' = "Git" /\ pc' = "done" /\ root_branches' = root_branches
             ELSE IF is_empty(branch_tree')
             THEN result' = "Ok" /\ pc' = "done" /\ root_branches' = root_branches
             ELSE /\ result' = result /\ pc' = "print"
                  /\ root_branches' \in Perms(find_root_branches(branch_tree'))
  /\ UNCHANGED <<repoVars, disk, yes, strategy_opt, sessions, alt, processed, stack>>

\* display.rs lines 168-180: print_branch_tree is called for the next root.
PrintRoot ==
  /\ pc = "print"
  /\ stack = <<>>
  /\ root_branches # <<>>
  /\ stack' = <<[branch |-> Head(root_branches), i |-> 1]>>
  /\ log' = Append(log, Line(Head(root_branches)))
  /\ root_branches' = Tail(root_branches)
  /\ UNCHANGED <<repoVars, disk, yes, strategy_opt, sessions, pc, config, strategy,
                 branch_tree, alt, processed, result>>

\* display.rs lines 146-164: print_branch_tree calls itself for the next child
\* of the branch on top of the stack; the call prints the child's line. The
\* process is aborted when the stack has no room for the call.
PrintChild ==
  /\ pc = "print"
  /\ stack # <<>>
  /\ LET top  == stack[Len(stack)]
         kids == children(branch_tree, top.branch)
     IN  /\ top.i <= Len(kids)
         /\ IF Len(stack) >= MaxDepth
            THEN /\ result' = "StackOverflow" /\ pc' = "done"
                 /\ UNCHANGED <<stack, log>>
            ELSE /\ stack' = Append([stack EXCEPT ![Len(stack)].i = top.i + 1],
                                    [branch |-> kids[top.i], i |-> 1])
                 /\ log' = Append(log, Line(kids[top.i]))
                 /\ UNCHANGED <<result, pc>>
  /\ UNCHANGED <<repoVars, disk, yes, strategy_opt, sessions, config, strategy,
                 branch_tree, alt, processed, root_branches>>

\* The loop over the children is over: print_branch_tree returns.
PrintReturn ==
  /\ pc = "print"
  /\ stack # <<>>
  /\ stack[Len(stack)].i > Len(children(branch_tree, stack[Len(stack)].branch))
  /\ stack' = SubSeq(stack, 1, Len(stack) - 1)
  /\ UNCHANGED <<repoVars, disk, yes, strategy_opt, sessions, pc, config, strategy,
                 branch_tree, alt, processed, root_branches, result, log>>

\* show.rs line 105: print_branch_hierarchy has returned, the command returns Ok.
ShowCompleted ==
  /\ pc = "print"
  /\ stack = <<>>
  /\ root_branches = <<>>
  /\ result' = "Ok" /\ pc' = "done"
  /\ UNCHANGED <<repoVars, disk, yes, strategy_opt, sessions, config, strategy,
                 branch_tree, alt, processed, root_branches, stack, log>>

ShowNext ==
  \/ ShowStart
  \/ PrintRoot
  \/ PrintChild
  \/ PrintReturn
  \/ ShowCompleted

\* The show command over every manual map.
ShowSpec == InitTrees /\ [][ShowNext]_vars
\* ------------------------------------------------------------ handle_config

\* A command-line string, as the pieces that matter to split(':') and trim():
\* branch names, the separator and the blank.
Colon == ":"
Blank == " "

\* Option<&str> of a relationship argument: absent, or Some(string).
Absent == <<>>
Some(s) == <<s>>

RECURSIVE split(_)
\* relation.split(':').collect(): the pieces between the separators.
split(s) ==
  IF \A i \in 1..Len(s) : s[i] # Colon THEN <<s>>
  ELSE LET k == CHOOSE i \in 1..Len(s) :
                  s[i] = Colon /\ \A j \in 1..(i - 1) : s[j] # Colon
       IN  <<SubSeq(s, 1, k - 1)>> \o split(SubSeq(s, k + 1, Len(s)))

RECURSIVE trim(_)
\* str::trim: the string without its leading and trailing blanks.
trim(s) ==
  IF s # <<>> /\ Head(s) = Blank THEN trim(Tail(s))
  ELSE IF s # <<>> /\ s[Len(s)] = Blank THEN trim(SubSeq(s, 1, Len(s) - 1))
       ELSE s

\* The String of a trimmed piece, which is empty or one name here.
to_string(s) == IF s = <<>> THEN "" ELSE s[1]

\* handle_config(default_base, detection_strategy, add_relationship,
\* remove_relationship) on the loaded Config conf: the Result returned, the
\* Config the last save wrote (each setter saves; an Err returns after the saves
\* made before it) and the Config in memory at the return.
handle_config(conf, default_base, detection_strategy, add_relationship, remove_relationship) ==
  LET c1 == IF default_base # None
            THEN set_default_base_branch(conf, default_base) ELSE conf
      c2 == IF detection_strategy # None
            THEN set_branch_detection_strategy(c1, detection_strategy) ELSE c1
      ap == split(add_relationship[1])
      rp == split(remove_relationship[1])
      c3 == IF add_relationship # Absent
            THEN add_branch_relationship(c2, to_string(trim(ap[1])),
                                         to_string(trim(ap[2])))
            ELSE c2
      c4 == IF remove_relationship # Absent
            THEN remove_branch_relationship(c3, to_string(trim(rp[1])),
                                            to_string(trim(rp[2])))
            ELSE c3
  IN  IF add_relationship # Absent /\ Len(ap) # 2
        THEN [res |-> "Config", disk |-> c2, mem |-> c2]
      ELSE IF add_relationship # Absent
              /\ (trim(ap[1]) = <<>> \/ trim(ap[2]) = <<>>)
        THEN [res |-> "Config", disk |-> c2, mem |-> c2]
      ELSE IF remove_relationship # Absent /\ Len(rp) # 2
        THEN [res |-> "Config", disk |-> c3, mem |-> c3]
      ELSE [res |-> "Ok", disk |-> c4, mem |-> c4]

\* The relationship strings given on the command line: every "parent:child",
\* one with blanks around the names, and malformed ones (no separator, two
\* separators, an empty or blank side).
WellFormed == {<<p, Colon, c>> : p \in Names, c \in Names}
Malformed ==
  {<<"main">>, <<"main", Colon, "feature-a", Colon, "feature-b">>,
   <<"main", Colon, Blank>>}
Removable == {<<p, Colon, c>> : p \in Names, c \in {"feature-a", "main"}}
Relations == WellFormed \cup Malformed \cup {<<Blank, "main", Colon, Blank, "main", Blank>>}

\* The record of one run of the config command: the parents whose key the run
\* took out of the relationship map.
Ran(before, after) ==
  [kind |-> "config",
   dropped |-> (DOMAIN before.branch_relationships) \ (DOMAIN after.branch_relationships)]

\* One run of `gitflow config` with any combination of the base and relationship
\* options, or with the strategy option alone.
HandleConfig ==
  /\ pc = "start"
  /\ \E default_base \in {None, "feature-a"},
        detection_strategy \in {None, "Manual"},
        add_relationship \in {Absent} \cup {Some(r) : r \in Relations},
        remove_relationship \in {Absent} \cup {Some(r) : r \in Removable \cup {<<"main">>}} :
       LET r == handle_config(disk, default_base, detection_strategy,
                              add_relationship, remove_relationship)
       IN  /\ detection_strategy # None =>
                (default_base = None /\ add_relationship = Absent
                                     /\ remove_relationship = Absent)
           /\ TotalLen(r.disk.branch_relationships) <= MaxConfigRel
           /\ disk' = r.disk
           /\ config' = r.mem
           /\ result' = r.res
           /\ log' = <<Ran(disk, r.disk)>>
  /\ UNCHANGED <<repoVars, yes, strategy_opt, sessions, pc, strategy, branch_tree,
                 alt, processed, root_branches, stack>>

\* A fresh configuration (Config::load without a file) and a repository with
\* the three branches.
InitConfig ==
  /\ Idle /\ Alone
  /\ disk = DiskConfig(DefaultStrategy, "main", EmptyTree)
  /\ commits \in {g \in Graphs(3, {0}) : Linear(g)}
  /\ refs \in RefsOf(Names, 3)
  /\ HEAD = "main" /\ dirty = FALSE
  /\ yes = FALSE /\ strategy_opt = None

ConfigSpec == InitConfig /\ [][HandleConfig]_vars

\* ------------------------------------------- concurrent runs of the command

\* Two gitflow processes, each running `config --add-relationship parent:child`
\* on the same configuration file. Config::load reads the file and Config::save
\* writes it, each in one step, and nothing (no lock, no comparison with the
\* file) ties a save to the load before it.
Procs == {1, 2}

\* A process that has not loaded the configuration yet.
Session(relation) ==
  [pc |-> "load", config |-> None, add_relationship |-> relation, result |-> "running"]

\* config.rs line 39 in process p: Config::load.
Load(p) ==
  /\ sessions[p].pc = "load"
  /\ sessions' = [sessions EXCEPT ![p].pc = "add", ![p].config = disk]
  /\ UNCHANGED <<repoVars, disk, yes, strategy_opt, pc, config, strategy,
                 branch_tree, alt, processed, root_branches, stack, result, log>>

\* config.rs lines 52-75 in process p: the relationship is parsed and added to
\* the Config loaded before, which add_branch_relationship saves.
AddRelationship(p) ==
  /\ sessions[p].pc = "add"
  /\ LET r == handle_config(sessions[p].config, None, None,
                            Some(sessions[p].add_relationship), Absent)
     IN  /\ disk' = r.disk
         /\ sessions' = [sessions EXCEPT ![p].pc = "done", ![p].config = r.mem,
                                         ![p].result = r.res]
  /\ UNCHANGED <<repoVars, yes, strategy_opt, pc, config, strategy,
                 branch_tree, alt, processed, root_branches, stack, result, log>>

ConcurrentNext == \E p \in Procs : Load(p) \/ AddRelationship(p)

InitConcurrent ==
  /\ Idle
  /\ disk \in {DiskConfig("Manual", "main", rel) : rel \in ManualMaps(1)}
  /\ sessions \in [Procs -> {Session(r) : r \in WellFormed}]
  /\ commits \in {g \in Graphs(3, {0}) : Linear(g)}
  /\ refs \in RefsOf(Names, 3)
  /\ HEAD = "main" /\ dirty = FALSE
  /\ yes = FALSE /\ strategy_opt = None

ConcurrentSpec == InitConcurrent /\ [][ConcurrentNext]_vars
\* ------------------------------------------------------- reading the log

At(kind) == {i \in 1..Len(log) : log[i].kind = kind}
Detects == At("detect")
Merges == At("merge")
Visits == At("visit")
Asked(q) == {i \in At("prompt") : log[i].q = q}

\* The merges attempted so far, in order, as edges <<from, to>>.
Attempted == LET m == SelectSeq(log, LAMBDA e : e.kind = "merge")
             IN  [i \in 1..Len(m) |-> <<m[i].from, m[i].to>>]

\* Position of an alternative in the priority order CreationTime, DefaultRoot,
\* Manual.
Priority(s) == CHOOSE k \in 1..Len(alternatives) : alternatives[k] = s

\* The repository is as it was when the command started (only merges change it).
Untouched == Merges = {}

\* The nodes of a tree and those reachable from a set of nodes along its edges.
Nodes(tree) == DOMAIN tree \cup UNION {Range(tree[p]) : p \in DOMAIN tree}
RECURSIVE Reach(_, _)
Reach(tree, from) ==
  LET more == from \cup {e[2] : e \in {d \in Edges(tree) : d[1] \in from}}
  IN  IF more = from THEN from ELSE Reach(tree, more)

\* ---------------------------------------------------------------- claims

\* The branches whose tip lies strictly between the tips of A and B, and the
\* pairs of distinct branches in strict ancestry with no branch in between.
Between(cs, rf, A, B) ==
  {C \in DOMAIN rf \ {A, B} :
     is_descendant_of(cs, rf[C], rf[A]) /\ is_descendant_of(cs, rf[B], rf[C])}
DirectEdges(cs, rf) ==
  {e \in (DOMAIN rf) \X (DOMAIN rf) :
     /\ e[1] # e[2]
     /\ is_descendant_of(cs, rf[e[2]], rf[e[1]])
     /\ Between(cs, rf, e[1], e[2]) = {}}
\* C1: CommitHistory detection returns the edge A -> B exactly for the distinct
\* local branches A, B with B's tip a strict descendant of A's tip and no third
\* branch C whose tip is a strict descendant of A's and a strict ancestor of B's.
C1_HistoryTreeIsDirectEdges ==
  \A i \in Detects :
    (Untouched /\ log[i].strategy = "CommitHistory") =>
      Edges(log[i].tree) = DirectEdges(commits, refs)

\* The repository of the end-to-end scenario: two features branched from main.
ForkScenario ==
  /\ DOMAIN refs = {"main", "feature-a", "feature-b"}
  /\ is_descendant_of(commits, refs["feature-a"], refs["main"])
  /\ is_descendant_of(commits, refs["feature-b"], refs["main"])
  /\ refs["feature-a"] \notin RevWalk(commits, refs["feature-b"])
  /\ refs["feature-b"] \notin RevWalk(commits, refs["feature-a"])
\* C2: with exactly main, feature-a, feature-b, main's tip a strict ancestor of
\* both feature tips and the feature tips unrelated, CommitHistory detection
\* returns {main: [feature-a, feature-b]}, the roots are [main], and a cascade
\* that runs attempts main -> feature-a and then main -> feature-b.
C2_ForkScenarioCascade ==
  (ForkScenario /\ log # <<>> /\ log[1].strategy = "CommitHistory") =>
    /\ log[1].tree = [p \in {"main"} |-> <<"feature-a", "feature-b">>]
    /\ find_root_branches(log[1].tree) = {"main"}
    /\ (pc = "done" /\ result = "Ok" /\ Cardinality(Detects) = 1) =>
         Attempted = << <<"main", "feature-a">>, <<"main", "feature-b">> >>

C4_EachReachableBranchOnce ==
  /\ \A v, w \in Visits : log[v].branch = log[w].branch => v = w
  /\ (pc = "done" /\ result = "Ok" /\ ~is_empty(branch_tree)) =>
       /\ {log[v].branch : v \in Visits} = Reach(branch_tree, find_root_branches(branch_tree))
       /\ \A b \in Reach(branch_tree, find_root_branches(branch_tree)) :
            Cardinality({m \in Merges : log[m].from = b}) = Len(children(branch_tree, b))
C4_Witness ==
  /\ pc = "done" /\ result = "Ok"
  /\ \E r1, r2 \in find_root_branches(branch_tree) : \E b \in Nodes(branch_tree) :
       /\ r1 # r2
       /\ <<r1, b>> \in Edges(branch_tree) /\ <<r2, b>> \in Edges(branch_tree)
       /\ <<b, b>> \in Edges(branch_tree)
       /\ \E m \in Merges : log[m].from = b /\ log[m].to = b

RECURSIVE Sum(_, _)
Sum(f, S) == IF S = {} THEN 0
             ELSE LET x == CHOOSE y \in S : TRUE IN f[x] + Sum(f, S \ {x})

\* The work left in the traversal: the roots still to be handed over, the
\* children still to be iterated in the frames on the stack, and a frame for
\* every branch not processed yet.
WorkLeft ==
  Len(root_branches)
  + Sum([k \in 1..Len(stack) |->
           Len(children(branch_tree, stack[k].branch)) - stack[k].i + 2], 1..Len(stack))
  + Sum([b \in Nodes(branch_tree) |-> Len(children(branch_tree, b)) + 1],
        Nodes(branch_tree) \ processed)

\* C5: the traversal terminates for every tree, cycles and self-loops included:
\* every step of it reduces the work left, which is never negative, and once
\* the merges are confirmed the command reaches the Completed state (Ok).
C5_TraversalTerminates ==
  /\ [][(pc = "cascade" /\ pc' = "cascade") => (WorkLeft' < WorkLeft /\ WorkLeft' >= 0)]_vars
  /\ (pc = "cascade") ~> (pc = "done" /\ result = "Ok")
C5_Witness ==
  /\ pc = "done" /\ result = "Ok"
  /\ \E a, b \in Reach(branch_tree, find_root_branches(branch_tree)) :
       /\ a # b
       /\ <<a, b>> \in Edges(branch_tree) /\ <<b, a>> \in Edges(branch_tree)
       /\ \E m \in Merges : log[m].from = b /\ log[m].to = a

\* C6: the strategy tried first (the primary one) is never run again by the
\* fallback loop.
C6_PrimaryNeverRunAgain ==
  \A i \in Detects : i > 1 => log[i].strategy # log[1].strategy

\* C7: the alternatives are asked about in the order CreationTime, DefaultRoot,
\* Manual; after the first alternative with a non-empty tree nothing more is
\* asked about or run, and the cascade works on exactly that tree.
C7_FallbackOrderAndStop ==
  /\ \A i, j \in Asked("Try") : i < j => Priority(log[i].alt) < Priority(log[j].alt)
  /\ \A i \in Detects : (i > 1 /\ ~is_empty(log[i].tree)) =>
       /\ \A j \in Detects \cup Asked("Try") : j <= i
       /\ branch_tree = log[i].tree
       /\ \A m \in Merges : <<log[m].from, log[m].to>> \in Edges(log[i].tree)
       /\ (pc = "done" /\ result = "Ok") =>
            \A e \in {d \in Edges(log[i].tree) :
                        d[1] \in Reach(log[i].tree, find_root_branches(log[i].tree))} :
              \E m \in Merges : <<log[m].from, log[m].to>> = e
C7_Witness ==
  /\ pc = "done" /\ result = "Ok" /\ Merges # {}
  /\ \E i, j \in Detects :
       /\ 1 < i /\ i < j
       /\ is_empty(log[i].tree) /\ ~is_empty(log[j].tree)
       /\ log[j].strategy = "DefaultRoot"

\* C8: an alternative is run only if no strategy was pinned, the primary tree
\* was empty and the user said yes to the prompt for that alternative; with a
\* pinned strategy nothing is asked about alternatives, and a declined
\* alternative is never run.
C8_AlternativeOnlyOnConsent ==
  /\ \A i \in Detects : i > 1 =>
       /\ strategy_opt = None
       /\ is_empty(log[1].tree)
       /\ log[i - 1] = Prompt("Try", log[i].strategy, "y")
  /\ strategy_opt # None => Asked("Try") \cup Asked("SetDefault") = {}
  /\ \A i \in Asked("Try") : log[i].answer # "y" =>
       \A j \in Detects : j > i => log[j].strategy # log[i].alt
C8_Witness ==
  /\ pc = "done"
  /\ \E i, j \in Asked("Try") :
       /\ log[i].answer = "n" /\ log[j].answer = "y"
       /\ j + 1 \in Detects

\* C9: when no strategy that was run found a hierarchy (the primary tree is
\* empty and each alternative was declined or came back empty, or the pinned
\* strategy came back empty), no merge is attempted, "Proceed with merges?" is
\* not asked, and the command returns Ok.
C9_NoHierarchyIsSuccessfulNoop ==
  (/\ pc = "done"
   /\ \A i \in Detects : is_empty(log[i].tree)
   /\ \A i \in At("prompt") : log[i].answer # "err") =>
     /\ result = "Ok"
     /\ Merges = {} /\ Visits = {}
     /\ Asked("Proceed") = {}
C9_Witness ==
  /\ pc = "done" /\ result = "Ok" /\ Merges = {}
  /\ Cardinality(Detects) = 2
  /\ \E i \in Asked("Try") : log[i].answer = "n"

NeverAChild(tree) ==
  {k \in DOMAIN tree :
     \A p \in DOMAIN tree : \A i \in 1..Len(tree[p]) : tree[p][i] # k}

\* C11: find_root_branches returns exactly the keys of the tree that occur in no
\* child list, each once: a key that is a child anywhere is excluded and a
\* branch that is only a child is never returned; the root list the cascade
\* starts from is such a list.
C11_RootsAreKeysNeverAChild ==
  /\ \A i \in Detects :
       /\ find_root_branches(log[i].tree) = NeverAChild(log[i].tree)
       /\ find_root_branches(log[i].tree) \cap
            (Nodes(log[i].tree) \ DOMAIN log[i].tree) = {}
  /\ (pc = "cascade" /\ Visits = {}) =>
       /\ Range(root_branches) = NeverAChild(branch_tree)
       /\ \A i, j \in 1..Len(root_branches) :
            root_branches[i] = root_branches[j] => i = j
C11_Witness ==
  /\ pc = "cascade" /\ Visits = {} /\ root_branches # <<>>
  /\ \E k \in DOMAIN branch_tree : \E p \in DOMAIN branch_tree :
       k # p /\ k \in Range(branch_tree[p])
  /\ Nodes(branch_tree) \ DOMAIN branch_tree # {}

\* C12: no tree returned by get_branch_tree has a branch in its own child list,
\* under each strategy, and for Manual after any sequence of add-relationship
\* and remove-relationship runs of the config command.
C12_NoSelfLoops ==
  \A s \in BranchRelationStrategy : \A b \in Names :
    <<b, b>> \notin Edges(get_branch_tree(commits, refs, s, disk))

ValidLocal == (DOMAIN refs) \ {Invalid}
TipTime(b) == commits[refs[b]].time
Candidates(bt, i) ==
  {j \in 1..(i - 1) :
     /\ TipTime(bt[i].name) - TipTime(bt[j].name) < 30 * Day
     /\ are_branches_related(commits, refs, bt[j].name, bt[i].name)}
Nearest(S) == CHOOSE j \in S : \A k \in S : k <= j

C16_InvalidNameFailsDetection ==
  Invalid \in DOMAIN refs =>
    \A i \in Detects : log[i].strategy = "Manual"

\* C17: for every edge parent -> child of the tree (parent and child distinct),
\* a merge with child as its source is attempted only after the merge of parent
\* into child has been attempted.
C17_ParentMergedBeforeChildIsSource ==
  \A e \in Edges(branch_tree) : \A m \in Merges :
    (e[1] # e[2] /\ log[m].from = e[2]) =>
      \E k \in Merges : k < m /\ log[k].from = e[1] /\ log[k].to = e[2]

\* The targets of the merges attempted so far out of a branch, in order.
TargetsFrom(p) ==
  LET m == SelectSeq(log, LAMBDA e : e.kind = "merge" /\ e.from = p)
  IN  [i \in 1..Len(m) |-> m[i].to]
MergesFrom(p) == {m \in Merges : log[m].from = p}

\* C18: the merges out of a parent are attempted in the order of its child
\* list; every merge attempted between two of them is out of a branch entered
\* after the first one, and all merges out of that branch are attempted before
\* the second; a root is entered only when all merges out of every branch
\* entered before are done, and the roots are entered in root-list order.
C18_SiblingAndRootOrder ==
  /\ [](\A p \in DOMAIN branch_tree :
          /\ Len(TargetsFrom(p)) <= Len(branch_tree[p])
          /\ \A i \in 1..Len(TargetsFrom(p)) : TargetsFrom(p)[i] = branch_tree[p][i])
  /\ [](\A i, k \in Merges : \A j \in Merges :
          (/\ i < j /\ j < k
           /\ log[i].from = log[k].from /\ log[j].from # log[i].from) =>
            /\ \E v \in Visits : v > i /\ v < j /\ log[v].branch = log[j].from
            /\ \A l \in MergesFrom(log[j].from) : l < k)
  /\ [](\A v \in Visits : log[v].branch \in find_root_branches(branch_tree) =>
          \A u \in Visits : u < v =>
            /\ \A l \in MergesFrom(log[u].branch) : l < v
            /\ Cardinality(MergesFrom(log[u].branch))
                 = (IF log[u].branch \in DOMAIN branch_tree
                    THEN Len(branch_tree[log[u].branch]) ELSE 0))
  /\ [][(pc = "cascade" /\ stack = <<>> /\ stack' # <<>>) =>
          /\ stack' = <<[branch |-> Head(root_branches), i |-> 1]>>
          /\ root_branches' = Tail(root_branches)]_vars
C18_Witness ==
  /\ pc = "done" /\ result = "Ok"
  /\ branch_tree = ("main" :> <<"feature-b", "feature-a">> @@ "feature-b" :> <<"feature-a">>)
  /\ Attempted = << <<"main", "feature-b">>, <<"feature-b", "feature-a">>,
                    <<"main", "feature-a">> >>

\* The "Set this as your default strategy?" prompts answered yes.
DefaultSet == {i \in Asked("SetDefault") : log[i].answer = "y"}

\* C19: the persisted configuration is changed by the cascade command only when
\* a fallback alternative produced a non-empty tree and the user said yes to
\* "Set this as your default strategy?": then the persisted strategy is that
\* alternative and nothing else differs; otherwise the persisted strategy, the
\* default base branch and the manual relationships are as they were loaded.
C19_OnlyConsentedDefaultIsPersisted ==
  pc # "start" =>
    IF DefaultSet = {} THEN disk = config
    ELSE \E i \in DefaultSet :
           /\ i - 1 \in Detects /\ i - 1 > 1
           /\ ~is_empty(log[i - 1].tree)
           /\ log[i - 1].strategy \in Range(alternatives)
           /\ disk = [branch_detection_strategy |-> log[i - 1].strategy,
                      default_base_branch |-> config.default_base_branch,
                      branch_relationships |-> config.branch_relationships]
C19_Witness ==
  /\ pc = "done" /\ result = "Ok" /\ Merges # {}
  /\ DefaultSet # {}
  /\ disk.branch_detection_strategy # config.branch_detection_strategy
  /\ config.branch_relationships # EmptyTree

\* The strict ancestry between the tips of the local branches, as pairs
\* <<ancestor, descendant>>.
Ancestry(cs, rf) ==
  {e \in (DOMAIN rf) \X (DOMAIN rf) :
     e[1] # e[2] /\ is_descendant_of(cs, rf[e[2]], rf[e[1]])}

\* C20: the directness filter of get_branch_tree_by_history is idempotent:
\* applied to the edge set the detection produced, it gives that edge set.
C20_DirectnessFilterIdempotent ==
  \A i \in Detects :
    (/\ log[i].strategy = "CommitHistory"
     /\ Edges(log[i].tree) = directness_filter(Ancestry(commits, refs), DOMAIN refs)) =>
      directness_filter(Edges(log[i].tree), DOMAIN refs) = Edges(log[i].tree)

\* C21: with the yes flag the command never waits for user input: no
\* confirmation prompt is issued, whatever the strategy and the detection.
C21_YesBypassesAllPrompts ==
  yes => At("prompt") = {}

\* C22: when the merges are confirmed (or yes is set) and the command reports
\* completion, every edge parent -> child of the plan (the tree, printed at
\* lines 97-102) has been attempted as a merge, cycles included.
C22_EveryPlannedEdgeAttempted ==
  (pc = "done" /\ result = "Ok" /\ ~is_empty(branch_tree)) =>
    \A e \in Edges(branch_tree) :
      \E m \in Merges : log[m].from = e[1] /\ log[m].to = e[2]

\* C23: in one run no edge is attempted twice: merge_branch(parent, child) is
\* called at most once for every pair, for every manual map that
\* add-relationship operations can build.
C23_NoEdgeAttemptedTwice ==
  \A m1, m2 \in Merges :
    (log[m1].from = log[m2].from /\ log[m1].to = log[m2].to) => m1 = m2

\* The tip history of a branch contains the tip of another.
Contains(child, parent) == refs[parent] \in RevWalk(commits, refs[child])

\* C24: after a cascade in which every edge of the tree was attempted and every
\* merge succeeded, the final history of each child contains the final tip of
\* each of its parents, also when a branch has more than one parent.
C24_ContentReachesEveryChild ==
  (/\ pc = "done" /\ result = "Ok" /\ Merges # {}
   /\ \A m \in Merges : log[m].res = "Ok"
   /\ \A e \in Edges(branch_tree) : \E m \in Merges : <<log[m].from, log[m].to>> = e) =>
    \A e \in Edges(branch_tree) : Contains(e[2], e[1])

\* C25: after every call of merge_branch, whatever it returns, and so after
\* the whole cascade, the checked-out branch is the one checked out before.
C25_HeadRestored ==
  [][HEAD' = HEAD]_vars

\* C26: the tree printer of the show command terminates for every manual map,
\* also with a cycle reachable from a root: no branch is printed inside its own
\* subtree, the nesting of print_branch_tree calls stays within the number of
\* branches of the tree, and the stack never overflows.
C26_PrinterTerminates ==
  /\ result # "StackOverflow"
  /\ pc = "print" =>
       /\ Len(stack) <= Cardinality(Nodes(branch_tree))
       /\ \A i, j \in 1..Len(stack) : stack[i].branch = stack[j].branch => i = j

\* C27: the tree returned by CreationTime detection is a forest: every branch
\* occurs as a child at most once in the whole tree, the tip of a parent is not
\* later than the tip of its child, and no branch is reachable from itself.
C27_CreationTimeForest ==
  \A d \in Detects : log[d].strategy = "CreationTime" =>
    LET tree == log[d].tree
    IN  /\ \A p, q \in DOMAIN tree : \A i \in 1..Len(tree[p]) : \A j \in 1..Len(tree[q]) :
             tree[p][i] = tree[q][j] => (p = q /\ i = j)
        /\ \A e \in Edges(tree) : TipTime(e[1]) <= TipTime(e[2])
        /\ \A n \in Nodes(tree) :
             n \notin Reach(tree, {e[2] : e \in {x \in Edges(tree) : x[1] = n}})
C27_Witness ==
  /\ \E d \in Detects : log[d].strategy = "CreationTime" /\ log[d].tree = branch_tree
  /\ branch_tree = [p \in {"main", "feature-a"} |->
                      IF p = "main" THEN <<"feature-a">> ELSE <<"feature-b">>]
  /\ TipTime("main") < TipTime("feature-a")
  /\ TipTime("feature-a") = TipTime("feature-b")

\* C28: when handle_config returns an error, the persisted configuration is
\* what it was before the command: no option of that command line was applied.
C28_ErrorLeavesConfigUnchanged ==
  [][result' = "Config" => disk' = disk]_vars

C30_ConcurrentChangesBothPersist ==
  (\A p \in DOMAIN sessions : sessions[p].pc = "done" /\ sessions[p].result = "Ok") =>
    \A p \in DOMAIN sessions :
      <<sessions[p].add_relationship[1], sessions[p].add_relationship[3]>>
        \in Edges(disk.branch_relationships)

====
